---------------------------- MODULE Spec2Model ----------------------------
(***************************************************************************)
(* Model of the Redux store of src/app/index.tsx (the "ui" and "todos"     *)
(* slices) and of the view handlers that dispatch to it.                   *)
(*                                                                         *)
(* Strings are sequences of one-character strings, so that trim() and the  *)
(* banner templates are computed and not assumed.  An optional todo        *)
(* (lastRemoved: Todo | null) is a sequence of length 0 (null) or 1.       *)
(***************************************************************************)
EXTENDS Integers, Sequences, FiniteSets, TLC

VARIABLES ui, todos, title, idCount, lastAction

vars == <<ui, todos, title, idCount, lastAction>>

(***************************************************************************)
(* Bounds.                                                                 *)
(***************************************************************************)
\* Number of todos the store-level specification creates (nanoid() calls).
MaxTodos == 3
\* Number of todos the view-level specification creates.
MaxViewTodos == 1
\* Longest text typed into the "Add a new task" input.
MaxLen == 2

\* Characters of the typed text: one whitespace character, one other.
Chars == {" ", "a"}
\* Values Date.now() returns when the view adds a todo.
Times == {1, 2}

RECURSIVE StringsOfLen(_)
StringsOfLen(n) ==
  IF n = 0 THEN {<<>>}
  ELSE {Append(s, c) : s \in StringsOfLen(n - 1), c \in Chars}

\* Every text the input can hold.
Strings == UNION {StringsOfLen(n) : n \in 0..MaxLen}

\* What the store-level specification dispatches addTodo with: the title
\* given to prepare() and the value Date.now() returns there.
AddInputs == {<<<<>>, 1>>, <<<<"a">>, 2>>}
TitleInputs == {in[1] : in \in AddInputs}
\* Ids the store-level specification dispatches toggleTodo/removeTodo with
\* (an id nanoid() has not produced yet is a lookup that misses).
IdInputs == 1..MaxTodos

(***************************************************************************)
(* Array and string helpers of the JavaScript runtime.                     *)
(***************************************************************************)
Null == <<>>

\* Array.prototype.unshift(x)
Unshift(arr, x) == <<x>> \o arr

\* Array.prototype.filter(x => x.id !== id)
RECURSIVE FilterOutId(_, _)
FilterOutId(arr, id) ==
  IF arr = <<>> THEN <<>>
  ELSE IF Head(arr).id # id THEN <<Head(arr)>> \o FilterOutId(Tail(arr), id)
       ELSE FilterOutId(Tail(arr), id)

\* Index of the first element with the id, 0 when there is none
\* (Array.prototype.find(x => x.id === id) returns that element or undefined).
FindIndex(arr, id) ==
  IF \E i \in 1..Len(arr) : arr[i].id = id
  THEN CHOOSE i \in 1..Len(arr) :
         arr[i].id = id /\ \A j \in 1..(i - 1) : arr[j].id # id
  ELSE 0

IsWhitespace(c) == c = " "

RECURSIVE TrimStart(_)
TrimStart(s) ==
  IF s # <<>> /\ IsWhitespace(Head(s)) THEN TrimStart(Tail(s)) ELSE s

RECURSIVE TrimEnd(_)
TrimEnd(s) ==
  IF s # <<>> /\ IsWhitespace(s[Len(s)])
  THEN TrimEnd(SubSeq(s, 1, Len(s) - 1)) ELSE s

\* String.prototype.trim()
Trim(s) == TrimEnd(TrimStart(s))

\* `Task "${t}" has been added!`
AddedMessage(t) ==
  <<"T", "a", "s", "k", " ", "\"">> \o t
    \o <<"\"", " ", "h", "a", "s", " ", "b", "e", "e", "n", " ",
         "a", "d", "d", "e", "d", "!">>

\* `Task "${t}" removed!`
RemovedMessage(t) ==
  <<"T", "a", "s", "k", " ", "\"">> \o t
    \o <<"\"", " ", "r", "e", "m", "o", "v", "e", "d", "!">>

\* Payloads the store-level specification dispatches showBanner with: any
\* string, the empty one and the texts the view builds included.
MessageInputs ==
  Strings \cup StringsOfLen(MaxLen + 1)
          \cup {AddedMessage(t) : t \in Strings}
          \cup {RemovedMessage(t) : t \in Strings}

(***************************************************************************)
(* The ui slice.                                                           *)
(***************************************************************************)
uiInitialState == [darkMode |-> FALSE, showBanner |-> FALSE, bannerMessage |-> <<>>]

toggleDarkMode(state) == [state EXCEPT !.darkMode = ~state.darkMode]

showBanner(state, payload) ==
  [state EXCEPT !.showBanner = TRUE, !.bannerMessage = payload]

\* Faulty variant: the flag is cleared and the message is left.
dismissBanner_FlagOnly(state) == [state EXCEPT !.showBanner = FALSE]

dismissBanner(state) ==
  [state EXCEPT !.showBanner = FALSE, !.bannerMessage = <<>>]

(***************************************************************************)
(* The todos slice.                                                        *)
(***************************************************************************)
todosInitialState == [items |-> <<>>, lastRemoved |-> Null]

\* addTodo.prepare: nanoid() is the next id never generated before.
nanoid(count) == count + 1

prepareAddTodo(t, id, now) ==
  [id |-> id, title |-> t, done |-> FALSE, createdAt |-> now]

\* Faulty variant: push (at the end) for unshift.
addTodo_Push(state, payload) ==
  [state EXCEPT !.items = Append(state.items, payload)]

addTodo(state, payload) ==
  [state EXCEPT !.items = Unshift(state.items, payload)]

\* Faulty variant: done is set, not flipped.
toggleTodo_SetsDone(state, payload) ==
  LET i == FindIndex(state.items, payload) IN
  IF i # 0
  THEN [state EXCEPT !.items[i].done = TRUE]
  ELSE state

toggleTodo(state, payload) ==
  LET i == FindIndex(state.items, payload) IN
  IF i # 0
  THEN [state EXCEPT !.items[i].done = ~state.items[i].done]
  ELSE state

\* Faulty variant: lastRemoved is assigned before the test of the lookup.
removeTodo_AssignsBeforeTest(state, payload) ==
  LET i == FindIndex(state.items, payload) IN
  IF i # 0
  THEN [items |-> FilterOutId(state.items, payload),
        lastRemoved |-> <<state.items[i]>>]
  ELSE [state EXCEPT !.lastRemoved = Null]

\* Faulty variant: the todo is saved and items is not filtered.
removeTodo_KeepsItem(state, payload) ==
  LET i == FindIndex(state.items, payload) IN
  IF i # 0
  THEN [state EXCEPT !.lastRemoved = <<state.items[i]>>]
  ELSE state

\* Faulty variant: the last element is moved into the place of the removed one.
removeTodo_SwapRemove(state, payload) ==
  LET i == FindIndex(state.items, payload)
      n == Len(state.items)
  IN
  IF i # 0
  THEN [items |-> [j \in 1..(n - 1) |->
                     IF j = i THEN state.items[n] ELSE state.items[j]],
        lastRemoved |-> <<state.items[i]>>]
  ELSE state

removeTodo(state, payload) ==
  LET i == FindIndex(state.items, payload) IN
  IF i # 0
  THEN [items |-> FilterOutId(state.items, payload),
        lastRemoved |-> <<state.items[i]>>]
  ELSE state

\* Faulty variant: push (at the end) for unshift.
undoLastRemoval_Push(state) ==
  IF state.lastRemoved # Null
  THEN [items |-> Append(state.items, state.lastRemoved[1]),
        lastRemoved |-> Null]
  ELSE state

\* Faulty variant: lastRemoved is not cleared.
undoLastRemoval_KeepsLastRemoved(state) ==
  IF state.lastRemoved # Null
  THEN [state EXCEPT !.items = Unshift(state.items, state.lastRemoved[1])]
  ELSE state

undoLastRemoval(state) ==
  IF state.lastRemoved # Null
  THEN [items |-> Unshift(state.items, state.lastRemoved[1]),
        lastRemoved |-> Null]
  ELSE state

\* Faulty variant: items is emptied and lastRemoved is left.
clearTodos_ItemsOnly(state) == [state EXCEPT !.items = <<>>]

clearTodos(state) == [items |-> <<>>, lastRemoved |-> Null]

(***************************************************************************)
(* The store: configureStore({reducer: {ui, todos}}).  Every dispatched    *)
(* action goes to both slice reducers; a slice returns its state as it is  *)
(* for an action type that is not one of its own.                          *)
(***************************************************************************)
\* An action creator of uiSlice.actions / todosSlice.actions.
Action(type, payload) == [type |-> type, payload |-> payload]

NoPayload == <<>>

uiReducer(state, action) ==
  CASE action.type = "ui/toggleDarkMode" -> toggleDarkMode(state)
    [] action.type = "ui/showBanner" -> showBanner(state, action.payload)
    [] action.type = "ui/dismissBanner" -> dismissBanner(state)
    [] OTHER -> state

todosReducer(state, action) ==
  CASE action.type = "todos/addTodo" -> addTodo(state, action.payload)
    [] action.type = "todos/toggleTodo" -> toggleTodo(state, action.payload)
    [] action.type = "todos/removeTodo" -> removeTodo(state, action.payload)
    [] action.type = "todos/undoLastRemoval" -> undoLastRemoval(state)
    [] action.type = "todos/clearTodos" -> clearTodos(state)
    [] OTHER -> state

rootReducer(store, action) ==
  [ui |-> uiReducer(store.ui, action),
   todos |-> todosReducer(store.todos, action)]

\* The store after the actions of a handler, dispatched in their order.
RECURSIVE DispatchAll(_, _)
DispatchAll(store, actions) ==
  IF actions = <<>> THEN store
  ELSE DispatchAll(rootReducer(store, Head(actions)), Tail(actions))

Init ==
  /\ ui = uiInitialState
  /\ todos = todosInitialState
  /\ title = <<>>
  /\ idCount = 0
  /\ lastAction = Action("@@INIT", NoPayload)

\* store.dispatch(action)
Dispatch(actions) ==
  LET store == DispatchAll([ui |-> ui, todos |-> todos], actions) IN
    /\ ui' = store.ui
    /\ todos' = store.todos
    /\ lastAction' = actions[Len(actions)]

AddTodo(t, now) ==
  /\ idCount < MaxTodos
  /\ Dispatch(<<Action("todos/addTodo", prepareAddTodo(t, nanoid(idCount), now))>>)
  /\ idCount' = idCount + 1
  /\ UNCHANGED title

ToggleTodo(id) ==
  /\ Dispatch(<<Action("todos/toggleTodo", id)>>)
  /\ UNCHANGED <<title, idCount>>

RemoveTodo(id) ==
  /\ Dispatch(<<Action("todos/removeTodo", id)>>)
  /\ UNCHANGED <<title, idCount>>

UndoLastRemoval ==
  /\ Dispatch(<<Action("todos/undoLastRemoval", NoPayload)>>)
  /\ UNCHANGED <<title, idCount>>

ClearTodos ==
  /\ Dispatch(<<Action("todos/clearTodos", NoPayload)>>)
  /\ UNCHANGED <<title, idCount>>

ToggleDarkMode ==
  /\ Dispatch(<<Action("ui/toggleDarkMode", NoPayload)>>)
  /\ UNCHANGED <<title, idCount>>

ShowBanner(message) ==
  /\ Dispatch(<<Action("ui/showBanner", message)>>)
  /\ UNCHANGED <<title, idCount>>

DismissBanner ==
  /\ Dispatch(<<Action("ui/dismissBanner", NoPayload)>>)
  /\ UNCHANGED <<title, idCount>>

(***************************************************************************)
(* The view: TodosCard, AppScaffold and DarkModeSwitch.  A handler runs to *)
(* completion; it is one step.  The lists render the current items, so a   *)
(* button of a row dispatches with the id of a todo that is in items.      *)
(***************************************************************************)
\* TextInput onChangeText={setTitle}
OnChangeText(text) ==
  /\ title' = text
  /\ UNCHANGED <<ui, todos, idCount, lastAction>>

\* Faulty variant: the guard tests the text as typed, not trimmed.
handleAddTodo_UntrimmedGuard(text, id, now) ==
  IF text = <<>> THEN <<>>
  ELSE <<Action("todos/addTodo", prepareAddTodo(Trim(text), id, now)),
         Action("ui/showBanner", AddedMessage(Trim(text)))>>

\* The actions handleAddTodo dispatches for the text in the input, in order.
handleAddTodo(text, id, now) ==
  IF Trim(text) = <<>> THEN <<>>
  ELSE <<Action("todos/addTodo", prepareAddTodo(Trim(text), id, now)),
         Action("ui/showBanner", AddedMessage(Trim(text)))>>

\* The actions handleRemoveTodo(id, title) dispatches, in order.
handleRemoveTodo(id, itemTitle) ==
  <<Action("todos/removeTodo", id),
    Action("ui/showBanner", RemovedMessage(itemTitle))>>

\* Add button / onSubmitEditing
HandleAddTodo(now) ==
  LET actions == handleAddTodo(title, nanoid(idCount), now) IN
  IF actions = <<>>
  THEN UNCHANGED vars
  ELSE /\ idCount < MaxViewTodos
       /\ Dispatch(actions)
       /\ idCount' = idCount + 1
       /\ title' = <<>>

\* Remove button of the row of items[i]
HandleRemoveTodo(i) ==
  /\ Dispatch(handleRemoveTodo(todos.items[i].id, todos.items[i].title))
  /\ UNCHANGED <<title, idCount>>

\* Done/Undo button of the row of items[i]
PressToggle(i) == ToggleTodo(todos.items[i].id)

\* "Undo Last Removal" button, rendered while lastRemoved is set
PressUndo ==
  /\ todos.lastRemoved # Null
  /\ UndoLastRemoval

\* "Close" action of the banner, rendered while showBanner is set
PressClose ==
  /\ ui.showBanner
  /\ DismissBanner

\* Switch onValueChange
SwitchDarkMode == ToggleDarkMode

(***************************************************************************)
(* Specifications.                                                         *)
(***************************************************************************)
\* Any sequence of the five todo actions, with any payload.
TodosNext ==
  \/ \E in \in AddInputs : AddTodo(in[1], in[2])
  \/ \E id \in IdInputs : ToggleTodo(id)
  \/ \E id \in IdInputs : RemoveTodo(id)
  \/ UndoLastRemoval
  \/ ClearTodos

TodosSpec == Init /\ [][TodosNext]_vars

\* Any sequence of the three ui actions, with any payload.
UiNext ==
  \/ ToggleDarkMode
  \/ \E m \in MessageInputs : ShowBanner(m)
  \/ DismissBanner

UiSpec == Init /\ [][UiNext]_vars

\* The application: the store driven by the view's handlers only.
ViewNext ==
  \/ \E text \in Strings : OnChangeText(text)
  \/ \E now \in Times : HandleAddTodo(now)
  \/ \E i \in 1..Len(todos.items) : HandleRemoveTodo(i)
  \/ \E i \in 1..Len(todos.items) : PressToggle(i)
  \/ PressUndo
  \/ PressClose
  \/ SwitchDarkMode

ViewSpec == Init /\ [][ViewNext]_vars

(***************************************************************************)
(* Vocabulary of the properties.                                           *)
(***************************************************************************)
\* The todos a TodosState holds: those of items and the one of lastRemoved.
TodosOf(state) ==
  {state.items[i] : i \in 1..Len(state.items)}
    \cup {state.lastRemoved[i] : i \in 1..Len(state.lastRemoved)}

IdsOf(arr) == {arr[i].id : i \in 1..Len(arr)}

\* arr without its i-th element.
WithoutIndex(arr, i) == SubSeq(arr, 1, i - 1) \o SubSeq(arr, i + 1, Len(arr))

\* Position of the (only) element with the id.
PositionOf(arr, id) == CHOOSE i \in 1..Len(arr) : arr[i].id = id

\* Two todos that are in both arrays are in the same order in both.
SameRelativeOrder(before, after) ==
  \A a, b \in IdsOf(before) \cap IdsOf(after) :
    (PositionOf(before, a) < PositionOf(before, b))
      <=> (PositionOf(after, a) < PositionOf(after, b))

\* Empty or whitespace only.
IsBlank(s) == \A i \in 1..Len(s) : IsWhitespace(s[i])

\* Ids a lookup is tried with: those generated, and two never generated.
LookupIds == 0..(MaxTodos + 1)

\* Titles addTodo is tried with.
NonEmptyTitles == (Strings \cup TitleInputs \cup {<<"b", " ", "c">>}) \ {<<>>}

(***************************************************************************)
(* C1                                                                      *)
(***************************************************************************)
\* C1 (as claimed): for every id present in items, at any position,
\* removeTodo(id) followed by undoLastRemoval() restores items to its exact
\* pre-removal content and order, and leaves lastRemoved null.
C1_RemoveUndoRestoresOrder ==
  \A i \in 1..Len(todos.items) :
    LET after == undoLastRemoval(removeTodo(todos, todos.items[i].id)) IN
      /\ after.items = todos.items
      /\ after.lastRemoved = Null

\* C1 (amended): for every id present in items, removeTodo(id) followed by
\* undoLastRemoval() leaves lastRemoved null and items holding the same
\* todos, the removed one at the front and the others behind it in their
\* order before the removal; the exact pre-removal order is restored when
\* the removed todo was the first one.
C1_RemoveUndoMovesToFront ==
  \A i \in 1..Len(todos.items) :
    LET after == undoLastRemoval(removeTodo(todos, todos.items[i].id)) IN
      /\ after.lastRemoved = Null
      /\ Len(after.items) = Len(todos.items)
      /\ after.items[1] = todos.items[i]
      /\ Tail(after.items) = WithoutIndex(todos.items, i)
      /\ (i = 1 => after.items = todos.items)

\* A removal of a todo that was not the first, undone: three todos, an older
\* one in front of a newer one, just after an undoLastRemoval.
C1_Witness ==
  /\ lastAction.type = "todos/undoLastRemoval"
  /\ todos.lastRemoved = Null
  /\ Len(todos.items) = 3
  /\ todos.items[1].id < todos.items[2].id

(***************************************************************************)
(* C2                                                                      *)
(***************************************************************************)
UniqueIds ==
  \A i, j \in 1..Len(todos.items) :
    todos.items[i].id = todos.items[j].id => i = j

CreatedAtKept ==
  \A t \in TodosOf(todos), u \in TodosOf(todos') :
    t.id = u.id => t.createdAt = u.createdAt

\* C2: in every state reachable by addTodo, toggleTodo, removeTodo,
\* undoLastRemoval and clearTodos (addTodo generating fresh ids), no two todos
\* of items share an id, and no step changes the createdAt of a todo.
C2_UniqueIdsCreatedAtKept == []UniqueIds /\ [][CreatedAtKept]_todos

\* A restored todo among others, with distinct creation times.
C2_Witness ==
  /\ lastAction.type = "todos/undoLastRemoval"
  /\ Len(todos.items) = 3
  /\ todos.items[1].id < todos.items[3].id
  /\ todos.items[1].createdAt # todos.items[3].createdAt

(***************************************************************************)
(* C3                                                                      *)
(***************************************************************************)
\* What lastRemoved is after a step, from the action dispatched.
LastRemovedStep ==
  LET a == lastAction' IN
  CASE a.type = "todos/removeTodo" /\ a.payload \in IdsOf(todos.items) ->
         todos'.lastRemoved = <<todos.items[PositionOf(todos.items, a.payload)]>>
    [] a.type = "todos/undoLastRemoval" -> todos'.lastRemoved = Null
    [] a.type = "todos/clearTodos" ->
         todos'.lastRemoved = Null /\ todos'.items = <<>>
    [] OTHER -> todos'.lastRemoved = todos.lastRemoved

\* C3: lastRemoved is null at the start; a removeTodo that finds its id sets
\* it to the todo it takes out, as that todo was; undoLastRemoval and
\* clearTodos set it to null (clearTodos also empties items); nothing else
\* changes it.  So it is null or the todo of the most recent effective
\* removal with no undo or clear since.
C3_LastRemoved ==
  /\ todos.lastRemoved = Null
  /\ [][LastRemovedStep]_todos
  /\ [](Len(todos.lastRemoved) <= 1)

\* A removed todo still held after a later addTodo.
C3_Witness ==
  /\ lastAction.type = "todos/addTodo"
  /\ todos.lastRemoved # Null
  /\ todos.lastRemoved[1].done
  /\ Len(todos.items) = 2

(***************************************************************************)
(* C4                                                                      *)
(***************************************************************************)
\* C4: for every non-empty title t, after addTodo(t) the first element of
\* items has that title, done false and an id that no todo created before
\* has (those of items and lastRemoved included); items is one longer and
\* lastRemoved is as it was.
C4_AddTodo ==
  \A t \in NonEmptyTitles, now \in Times :
    LET payload == prepareAddTodo(t, nanoid(idCount), now)
        after == todosReducer(todos, Action("todos/addTodo", payload))
    IN
      /\ after.items[1].title = t
      /\ after.items[1].done = FALSE
      /\ after.items[1].id \notin 1..idCount
      /\ after.items[1].id \notin {u.id : u \in TodosOf(todos)}
      /\ Len(after.items) = Len(todos.items) + 1
      /\ after.lastRemoved = todos.lastRemoved

\* An addTodo of a non-empty title onto a list with a todo, one being held.
C4_Witness ==
  /\ lastAction.type = "todos/addTodo"
  /\ lastAction.payload.title # <<>>
  /\ todos.items[1] = lastAction.payload
  /\ Len(todos.items) = 2
  /\ todos.lastRemoved # Null

(***************************************************************************)
(* C5                                                                      *)
(***************************************************************************)
\* C5: for every id that is not in items (that of the todo held in
\* lastRemoved included), toggleTodo(id) and removeTodo(id) leave items and
\* lastRemoved as they are.
C5_MissIsNoOp ==
  \A id \in LookupIds \ IdsOf(todos.items) :
    /\ todosReducer(todos, Action("todos/toggleTodo", id)) = todos
    /\ todosReducer(todos, Action("todos/removeTodo", id)) = todos

\* A toggleTodo of the id of the todo held in lastRemoved, which misses.
C5_Witness ==
  /\ lastAction.type = "todos/toggleTodo"
  /\ todos.lastRemoved # Null
  /\ lastAction.payload = todos.lastRemoved[1].id
  /\ Len(todos.items) = 2

(***************************************************************************)
(* C6                                                                      *)
(***************************************************************************)
\* C6: two undoLastRemoval() in a row leave the state one leaves, so the
\* removed todo is in items once; with lastRemoved null one changes nothing.
C6_UndoTwice ==
  LET once == todosReducer(todos, Action("todos/undoLastRemoval", NoPayload))
      twice == todosReducer(once, Action("todos/undoLastRemoval", NoPayload))
  IN
    /\ twice = once
    /\ todos.lastRemoved # Null =>
         Cardinality({i \in 1..Len(twice.items) :
                        twice.items[i].id = todos.lastRemoved[1].id}) = 1
    /\ todos.lastRemoved = Null => once = todos

\* A state where an undo has something to restore, next to two other todos.
C6_Witness ==
  /\ lastAction.type = "todos/removeTodo"
  /\ todos.lastRemoved # Null
  /\ lastAction.payload = todos.lastRemoved[1].id
  /\ Len(todos.items) = 2

(***************************************************************************)
(* C7                                                                      *)
(***************************************************************************)
\* C7: for every id present in items, toggleTodo(id) flips done of that todo
\* and nothing else, and a second toggleTodo(id) gives back the whole state.
C7_Toggle ==
  \A i \in 1..Len(todos.items) :
    LET id == todos.items[i].id
        after == todosReducer(todos, Action("todos/toggleTodo", id))
    IN
      /\ Len(after.items) = Len(todos.items)
      /\ after.items[i].done = ~todos.items[i].done
      /\ after.items[i].id = id
      /\ after.items[i].title = todos.items[i].title
      /\ after.items[i].createdAt = todos.items[i].createdAt
      /\ \A j \in 1..Len(todos.items) : j # i => after.items[j] = todos.items[j]
      /\ after.lastRemoved = todos.lastRemoved
      /\ todosReducer(after, Action("todos/toggleTodo", id)) = todos

\* A toggleTodo of a todo that is not the first: it is done, the first is not.
C7_Witness ==
  /\ lastAction.type = "todos/toggleTodo"
  /\ Len(todos.items) = 3
  /\ todos.items[2].id = lastAction.payload
  /\ todos.items[2].done
  /\ ~todos.items[1].done

(***************************************************************************)
(* C8                                                                      *)
(***************************************************************************)
\* After dismissBanner the banner is absent, and a second one changes nothing.
DismissedIsAbsent ==
  lastAction.type = "ui/dismissBanner" =>
    /\ ~ui.showBanner
    /\ ui.bannerMessage = <<>>
    /\ uiReducer(ui, Action("ui/dismissBanner", NoPayload)) = ui

\* C8 (as claimed): in every state reachable by toggleDarkMode,
\* showBanner(message) for any string message and dismissBanner, a banner
\* that is present has a non-empty message; after dismissBanner the banner is
\* absent and a second dismissBanner changes nothing.
C8_BannerMessageNonEmpty ==
  /\ ui.showBanner => ui.bannerMessage # <<>>
  /\ DismissedIsAbsent

\* What the banner is after a step, from the action dispatched.
BannerStep ==
  LET a == lastAction' IN
  CASE a.type = "ui/showBanner" ->
         ui'.showBanner /\ ui'.bannerMessage = a.payload
    [] a.type = "ui/dismissBanner" ->
         ~ui'.showBanner /\ ui'.bannerMessage = <<>>
    [] OTHER ->
         ui'.showBanner = ui.showBanner /\ ui'.bannerMessage = ui.bannerMessage

\* C8 (amended): a banner that is present has the message of the showBanner
\* that set it, which is non-empty when that message is non-empty and empty
\* after showBanner(""); after dismissBanner the banner is absent (flag false,
\* message empty) and a second dismissBanner changes nothing.
C8_BannerMessageAsShown ==
  /\ [][BannerStep]_ui
  /\ []DismissedIsAbsent

\* A banner with its message, still there after a toggleDarkMode.
C8_Witness ==
  /\ lastAction.type = "ui/toggleDarkMode"
  /\ ui.showBanner
  /\ ui.bannerMessage = AddedMessage(<<"a">>)
  /\ ui.darkMode

(***************************************************************************)
(* C9                                                                      *)
(***************************************************************************)
OrderStep ==
  LET a == lastAction' IN
    /\ a.type = "todos/addTodo" => todos'.items[1] = a.payload
    /\ a.type = "todos/undoLastRemoval" /\ todos.lastRemoved # Null =>
         todos'.items[1] = todos.lastRemoved[1]
    /\ SameRelativeOrder(todos.items, todos'.items)

\* C9: after addTodo or an effective undoLastRemoval the added or restored
\* todo is at index 0 of items, and every one of the five transitions keeps
\* the relative order of the todos that are in items before and after it.
C9_Ordering == [][OrderStep]_todos

\* The oldest of three todos restored in front of the two newer ones.
C9_Witness ==
  /\ lastAction.type = "todos/undoLastRemoval"
  /\ Len(todos.items) = 3
  /\ todos.items[1].id = 1
  /\ todos.items[2].id = 3

(***************************************************************************)
(* C10                                                                     *)
(***************************************************************************)
TitlesNonEmpty == \A t \in TodosOf(todos) : t.title # <<>>

\* What handleAddTodo does for the text in the input.
SubmitEffect ==
  \A now \in Times :
    LET actions == handleAddTodo(title, nanoid(idCount), now)
        after == DispatchAll([ui |-> ui, todos |-> todos], actions)
    IN
      /\ IsBlank(title) => actions = <<>> /\ after.todos = todos /\ after.ui = ui
      /\ ~IsBlank(title) =>
           /\ Len(actions) = 2
           /\ actions[1].type = "todos/addTodo"
           /\ actions[2].type = "ui/showBanner"
           /\ Len(after.todos.items) = Len(todos.items) + 1
           /\ after.todos.items[1] = actions[1].payload
           /\ after.todos.items[1].title # <<>>
           /\ after.ui.showBanner
           /\ after.ui.bannerMessage # <<>>

\* C10: with todos added through handleAddTodo only, every todo of items and
\* of lastRemoved has a non-empty title; a submission of an empty or
\* whitespace-only input dispatches nothing; any other submission dispatches
\* addTodo then showBanner, and the banner is present with a non-empty
\* message after it.
C10_ViewTitlesNonEmpty == TitlesNonEmpty /\ SubmitEffect

\* A task just added from the view, and a whitespace-only text typed after it.
C10_Witness ==
  /\ Len(todos.items) = 1
  /\ todos.items[1].title = <<"a">>
  /\ ui.showBanner
  /\ ui.bannerMessage = AddedMessage(<<"a">>)
  /\ title = <<" ">>

=============================================================================
